---- MODULE Spec2Model ----
(***************************************************************************)
(* Model of the in-memory LibraryService of src/lm.py.                     *)
(*                                                                         *)
(* Dates are day numbers 0..MaxDate, None is Python's None, Money is kept  *)
(* in hundredths (Money("0.50") is 50).  A member's _borrowed dict is the  *)
(* sequence of its (key, value) entries in insertion order.  Every action  *)
(* is one whole call of the service: it is made when no result is pending  *)
(* and leaves in `last` its arguments and what it returned or raised, which*)
(* the single caller then observes before it makes the next call.          *)
(***************************************************************************)
EXTENDS Integers, Sequences, FiniteSets, TLC

MaxDate == 2          \* dates explored are 0..MaxDate
MaxLoans == 2         \* open loans explored, over all members

None == -1

ACTIVE == "ACTIVE"
BLOCKED == "BLOCKED"

BORROWED == "BORROWED"
RETURNED_ON_TIME == "RETURNED_ON_TIME"
RETURNED_LATE == "RETURNED_LATE"

OK == "ok"
InvalidArgument == "ValueError"
MemberBlocked == "MemberBlockedException"
BookNotFound == "BookNotFoundException"
BookNotBorrowed == "BookNotBorrowedException"
Failures == {InvalidArgument, MemberBlocked, BookNotFound, BookNotBorrowed}

DAILY_FINE == 50

Dates == 0..MaxDate
Members == {42, 77}
ISBNs == {"i1", "i2", "i9"}

VARIABLES catalogue, status, borrowed, today, last

vars == <<catalogue, status, borrowed, today, last>>

\* ---------------------------------------------------------------- strings
Lower(c) == CASE c = "J" -> "j" [] c = "A" -> "a" [] OTHER -> c

LowerStr(s) == [k \in 1..Len(s) |-> Lower(s[k])]

Contains(sub, s) ==
  \E k \in 0..(Len(s) - Len(sub)) : SubSeq(s, k + 1, k + Len(sub)) = sub

IsSpace(s) == Len(s) > 0 /\ \A k \in 1..Len(s) : s[k] = " "

InSeq(x, s) == \E k \in 1..Len(s) : s[k] = x

\* an argument that may be None: a str or a list
NoneArg == [none |-> TRUE, s |-> <<>>]
Arg(s) == [none |-> FALSE, s |-> s]

\* ---------------------------------------------------------------- domain
Book(isbn, title, tags) == [isbn |-> isbn, title |-> title, tags |-> tags]

BorrowRecord(isbn, borrowed_on, due_on) ==
  [isbn |-> isbn, borrowed_on |-> borrowed_on, due_on |-> due_on,
   returned_on |-> None]

Receipt(st, when, isbn) == [status |-> st, when |-> when, isbn |-> isbn]

IsOverdue(rec, as_of) == rec.returned_on = None /\ as_of > rec.due_on

DemoCatalogue ==
  << Book("i1", <<"J", "a">>, <<"java", "arch">>),
     Book("i2", <<"a", "J">>, <<"java">>) >>

\* ---------------------------------------------------------------- Member
KeyIndex(d, isbn) ==
  IF \E k \in 1..Len(d) : d[k].key = isbn
  THEN CHOOSE k \in 1..Len(d) : d[k].key = isbn
  ELSE 0

DictSet_KeepsOldRecord(d, isbn, rec) ==
  IF KeyIndex(d, isbn) = 0
  THEN Append(d, [key |-> isbn, val |-> rec])
  ELSE d

DictSet(d, isbn, rec) ==
  IF KeyIndex(d, isbn) = 0
  THEN Append(d, [key |-> isbn, val |-> rec])
  ELSE [d EXCEPT ![KeyIndex(d, isbn)] = [key |-> isbn, val |-> rec]]

DictPop_KeepsEntry(d, isbn) == d

DictPop(d, isbn) ==
  LET k == KeyIndex(d, isbn) IN
  IF k = 0 THEN d ELSE SubSeq(d, 1, k - 1) \o SubSeq(d, k + 1, Len(d))

MemberBorrow(member, isbn, due_on, now) ==
  DictSet(borrowed[member], isbn, BorrowRecord(isbn, now, due_on))

\* the record popped by Member.return_book, already stamped; None if absent
MemberReturnRec(member, isbn, when) ==
  LET k == KeyIndex(borrowed[member], isbn) IN
  IF k = 0 THEN None
  ELSE [borrowed[member][k].val EXCEPT !.returned_on = when]

MemberReturnDict_LooksUpOnly(member, isbn) == borrowed[member]

MemberReturnDict(member, isbn) == DictPop(borrowed[member], isbn)

\* ---------------------------------------------------------------- helpers
ValidateMember_NoBlockedCheck(member) ==
  IF member = None THEN InvalidArgument ELSE OK

ValidateMember(member) ==
  IF member = None THEN InvalidArgument
  ELSE IF status[member] = BLOCKED THEN MemberBlocked
  ELSE OK

\* a book is found only while no member holds it
GetBook_OnlyIfOnShelf(isbn) ==
  IF /\ \E k \in 1..Len(catalogue) : catalogue[k].isbn = isbn
     /\ \A m \in Members : KeyIndex(borrowed[m], isbn) = 0
  THEN OK ELSE BookNotFound

GetBook(isbn) ==
  IF \E k \in 1..Len(catalogue) : catalogue[k].isbn = isbn
  THEN OK ELSE BookNotFound

DueDateRejected_TodayAllowed(due_date, now) ==
  due_date = None \/ due_date < now

DueDateRejected(due_date, now) == due_date = None \/ due_date <= now

ReturnStatus_DueDayLate(return_date, rec) ==
  IF return_date >= rec.due_on THEN RETURNED_LATE ELSE RETURNED_ON_TIME

ReturnStatus(return_date, rec) ==
  IF return_date > rec.due_on THEN RETURNED_LATE ELSE RETURNED_ON_TIME

FineDays_SinceBorrowed(as_of_date, rec) == as_of_date - rec.borrowed_on

FineDays_Reversed(as_of_date, rec) == rec.due_on - as_of_date

FineDays(as_of_date, rec) == as_of_date - rec.due_on

\* decimal.getcontext().prec: significant digits kept by Decimal arithmetic
PREC == 9

Quantize_WholeUnits(c) == ((c + 50) \div 100) * 100

\* the result of a Decimal operation whose exact value is c hundredths: the
\* coefficient is rounded half-even to PREC digits (amounts below 2^31)
Quantize(c) ==
  IF c < 10 ^ PREC THEN c
  ELSE LET q == c \div 10
           r == c % 10
       IN IF r > 5 \/ (r = 5 /\ q % 2 = 1) THEN (q + 1) * 10 ELSE q * 10

\* total after the loop of calculate_fine has visited the first k records
RECURSIVE FineTotal(_, _, _)
FineTotal(d, k, as_of_date) ==
  IF k = 0 THEN 0
  ELSE IF IsOverdue(d[k].val, as_of_date)
       THEN Quantize(FineTotal(d, k - 1, as_of_date)
                     + Quantize(DAILY_FINE * FineDays(as_of_date, d[k].val)))
       ELSE FineTotal(d, k - 1, as_of_date)

OpenLoans ==
  Len(borrowed[42]) + Len(borrowed[77])

Call(op, member, isbn, date, outcome, result, rec) ==
  [op |-> op, member |-> member, isbn |-> isbn, date |-> date,
   outcome |-> outcome, result |-> result, rec |-> rec, search |-> None]

SearchCall(query, tags, page_size, page_number, outcome, result) ==
  [op |-> "search_books", member |-> None, isbn |-> "", date |-> None,
   outcome |-> outcome, result |-> result, rec |-> None,
   search |-> [query |-> query, tags |-> tags, page_size |-> page_size,
               page_number |-> page_number]]

Idle == Call("idle", None, "", None, OK, None, None)

\* ---------------------------------------------------------------- Init
Init ==
  /\ catalogue = DemoCatalogue
  /\ status = (42 :> ACTIVE) @@ (77 :> BLOCKED)
  /\ borrowed = [m \in Members |-> <<>>]
  /\ today = 0
  /\ last = Idle

\* ---------------------------------------------------------------- API
\* borrow_book with the catalogue lookup in front of the due_date check
BorrowBook_BookCheckedFirst(member, isbn, due_date, now2, now3) ==
  LET v == ValidateMember(member) IN
  IF v # OK THEN
    /\ last' = Call("borrow_book", member, isbn, due_date, v, None, None)
    /\ UNCHANGED <<catalogue, status, borrowed, today>>
  ELSE IF GetBook(isbn) # OK THEN
    /\ last' = Call("borrow_book", member, isbn, due_date, GetBook(isbn),
                    None, None)
    /\ UNCHANGED <<catalogue, status, borrowed, today>>
  ELSE IF DueDateRejected(due_date, today) THEN
    /\ last' = Call("borrow_book", member, isbn, due_date, InvalidArgument,
                    None, None)
    /\ UNCHANGED <<catalogue, status, borrowed, today>>
  ELSE
    /\ KeyIndex(borrowed[member], isbn) = 0 => OpenLoans < MaxLoans
    /\ borrowed' = [borrowed EXCEPT
                      ![member] = MemberBorrow(member, isbn, due_date, now2)]
    /\ today' = now3
    /\ last' = Call("borrow_book", member, isbn, due_date, OK,
                    Receipt(BORROWED, now3, isbn), None)
    /\ UNCHANGED <<catalogue, status>>

\* now2 and now3 are the second and third reading of date.today()
BorrowBook(member, isbn, due_date, now2, now3) ==
  LET v == ValidateMember(member) IN
  IF v # OK THEN
    /\ last' = Call("borrow_book", member, isbn, due_date, v, None, None)
    /\ UNCHANGED <<catalogue, status, borrowed, today>>
  ELSE IF DueDateRejected(due_date, today) THEN
    /\ last' = Call("borrow_book", member, isbn, due_date, InvalidArgument,
                    None, None)
    /\ UNCHANGED <<catalogue, status, borrowed, today>>
  ELSE IF GetBook(isbn) # OK THEN
    /\ last' = Call("borrow_book", member, isbn, due_date, GetBook(isbn),
                    None, None)
    /\ UNCHANGED <<catalogue, status, borrowed, today>>
  ELSE
    /\ KeyIndex(borrowed[member], isbn) = 0 => OpenLoans < MaxLoans
    /\ borrowed' = [borrowed EXCEPT
                      ![member] = MemberBorrow(member, isbn, due_date, now2)]
    /\ today' = now3
    /\ last' = Call("borrow_book", member, isbn, due_date, OK,
                    Receipt(BORROWED, now3, isbn), None)
    /\ UNCHANGED <<catalogue, status>>

\* return_book with the pop moved in front of the return_date check
ReturnBook_PopsBeforeDateCheck(member, isbn, return_date) ==
  LET v == ValidateMember(member) IN
  IF v # OK THEN
    /\ last' = Call("return_book", member, isbn, return_date, v, None, None)
    /\ UNCHANGED <<catalogue, status, borrowed, today>>
  ELSE
    /\ borrowed' = [borrowed EXCEPT
                      ![member] = MemberReturnDict(member, isbn)]
    /\ last' = IF return_date = None
               THEN Call("return_book", member, isbn, return_date,
                         InvalidArgument, None, None)
               ELSE IF KeyIndex(borrowed[member], isbn) = 0
               THEN Call("return_book", member, isbn, return_date,
                         BookNotBorrowed, None, None)
               ELSE Call("return_book", member, isbn, return_date, OK,
                         Receipt(ReturnStatus(return_date,
                                   MemberReturnRec(member, isbn, return_date)),
                                 return_date, isbn),
                         MemberReturnRec(member, isbn, return_date))
    /\ UNCHANGED <<catalogue, status, today>>

\* return_book refusing a return_date before the day of the loan
ReturnBook_RejectsEarlyDate(member, isbn, return_date) ==
  LET v == ValidateMember(member) IN
  IF v # OK THEN
    /\ last' = Call("return_book", member, isbn, return_date, v, None, None)
    /\ UNCHANGED <<catalogue, status, borrowed, today>>
  ELSE IF \/ return_date = None
          \/ /\ KeyIndex(borrowed[member], isbn) # 0
             /\ return_date
                  < borrowed[member][KeyIndex(borrowed[member], isbn)]
                      .val.borrowed_on
  THEN
    /\ last' = Call("return_book", member, isbn, return_date,
                    InvalidArgument, None, None)
    /\ UNCHANGED <<catalogue, status, borrowed, today>>
  ELSE
    LET rec == MemberReturnRec(member, isbn, return_date) IN
    /\ borrowed' = [borrowed EXCEPT
                      ![member] = MemberReturnDict(member, isbn)]
    /\ last' = IF KeyIndex(borrowed[member], isbn) = 0
               THEN Call("return_book", member, isbn, return_date,
                         BookNotBorrowed, None, None)
               ELSE Call("return_book", member, isbn, return_date, OK,
                         Receipt(ReturnStatus(return_date, rec),
                                 return_date, isbn), rec)
    /\ UNCHANGED <<catalogue, status, today>>

ReturnBook(member, isbn, return_date) ==
  LET v == ValidateMember(member) IN
  IF v # OK THEN
    /\ last' = Call("return_book", member, isbn, return_date, v, None, None)
    /\ UNCHANGED <<catalogue, status, borrowed, today>>
  ELSE IF return_date = None THEN
    /\ last' = Call("return_book", member, isbn, return_date,
                    InvalidArgument, None, None)
    /\ UNCHANGED <<catalogue, status, borrowed, today>>
  ELSE
    LET rec == MemberReturnRec(member, isbn, return_date) IN
    /\ borrowed' = [borrowed EXCEPT
                      ![member] = MemberReturnDict(member, isbn)]
    /\ last' = IF KeyIndex(borrowed[member], isbn) = 0
               THEN Call("return_book", member, isbn, return_date,
                         BookNotBorrowed, None, None)
               ELSE Call("return_book", member, isbn, return_date, OK,
                         Receipt(ReturnStatus(return_date, rec),
                                 return_date, isbn), rec)
    /\ UNCHANGED <<catalogue, status, today>>

\* what calculate_fine returns or raises in the current state
FineCall(member, as_of_date) ==
  LET v == ValidateMember(member) IN
  IF v # OK
  THEN Call("calculate_fine", member, "", as_of_date, v, None, None)
  ELSE IF as_of_date = None
  THEN Call("calculate_fine", member, "", as_of_date, InvalidArgument, None,
            None)
  ELSE Call("calculate_fine", member, "", as_of_date, OK,
            FineTotal(borrowed[member], Len(borrowed[member]), as_of_date),
            None)

\* calculate_fine that clears the loans it has charged
CalculateFine_SettlesLoans(member, as_of_date) ==
  /\ last' = FineCall(member, as_of_date)
  /\ borrowed' = IF FineCall(member, as_of_date).outcome = OK
                 THEN [borrowed EXCEPT ![member] = <<>>]
                 ELSE borrowed
  /\ UNCHANGED <<catalogue, status, today>>

CalculateFine(member, as_of_date) ==
  /\ last' = FineCall(member, as_of_date)
  /\ UNCHANGED <<catalogue, status, borrowed, today>>

Min(a, b) == IF a <= b THEN a ELSE b

QueryRejected_BlankAllowed(query) == query.none \/ Len(query.s) = 0

QueryRejected(query) == query.none \/ Len(query.s) = 0 \/ IsSpace(query.s)

TitleMatches(query, book) ==
  query.s = <<"*">> \/ Contains(LowerStr(query.s), LowerStr(book.title))

TagsMatch_AnyTag(tags, book) ==
  Len(tags.s) = 0 \/ \E k \in 1..Len(tags.s) : InSeq(tags.s[k], book.tags)

TagsMatch(tags, book) ==
  Len(tags.s) = 0 \/ \A k \in 1..Len(tags.s) : InSeq(tags.s[k], book.tags)

Filtered(query, tags) ==
  SelectSeq(SelectSeq(catalogue, LAMBDA b : TitleMatches(query, b)),
            LAMBDA b : TagsMatch(tags, b))

Page_EndInclusive(stream, page_size, page_number) ==
  SubSeq(stream, page_size * page_number + 1,
         Min(page_size * page_number + page_size + 1, Len(stream)))

Page(stream, page_size, page_number) ==
  SubSeq(stream, page_size * page_number + 1,
         Min(page_size * page_number + page_size, Len(stream)))

SearchBooks(query, tags, page_size, page_number) ==
  /\ last' =
       IF \/ QueryRejected(query)
          \/ tags.none
          \/ ~(1 <= page_size /\ page_size <= 100)
          \/ page_number < 0
       THEN SearchCall(query, tags, page_size, page_number,
                       InvalidArgument, None)
       ELSE SearchCall(query, tags, page_size, page_number, OK,
                       Page(Filtered(query, tags), page_size, page_number))
  /\ UNCHANGED <<catalogue, status, borrowed, today>>

\* ---------------------------------------------------------------- environment
\* the calendar day changes between two calls
Tick ==
  /\ last.op = "idle"
  /\ today < MaxDate
  /\ today' = today + 1
  /\ UNCHANGED <<catalogue, status, borrowed, last>>

\* the admin collaborator assigns Member.status
SetStatus(member, st) ==
  /\ last.op = "idle"
  /\ status[member] # st
  /\ status' = [status EXCEPT ![member] = st]
  /\ UNCHANGED <<catalogue, borrowed, today, last>>

\* the caller takes the receipt, the amount, the page or the exception
Observe ==
  /\ last.op # "idle"
  /\ last' = Idle
  /\ UNCHANGED <<catalogue, status, borrowed, today>>

\* ---------------------------------------------------------------- Next
DateArgs == Dates \cup {None}

\* (member, isbn, date) of the calls of borrow_book and return_book
LoanArgs ==
  (Members \X ISBNs \X DateArgs) \cup {<<None, "i1", 1>>, <<None, "i9", None>>}

\* (member, as_of_date) of the calls of calculate_fine
FineArgs == (Members \X DateArgs) \cup {<<None, 1>>, <<None, None>>}

QueryArgs == {NoneArg, Arg(<<"*">>), Arg(<<"j", "A">>)}
TagArgs == {NoneArg, Arg(<<"java", "arch">>)}
PageSizeArgs == {0, 2}
PageNumberArgs == {-1, 0}

DoBorrow ==
  /\ last.op = "idle"
  /\ \E a \in LoanArgs :
       \E now2 \in today..Min(today + 1, MaxDate) :
         \E now3 \in now2..Min(today + 1, MaxDate) :
           BorrowBook(a[1], a[2], a[3], now2, now3)

DoReturn ==
  /\ last.op = "idle"
  /\ \E a \in LoanArgs : ReturnBook(a[1], a[2], a[3])

DoFine ==
  /\ last.op = "idle"
  /\ \E a \in FineArgs : CalculateFine(a[1], a[2])

DoSearch ==
  /\ last.op = "idle"
  /\ \E query \in QueryArgs, tags \in TagArgs :
       \E page_size \in PageSizeArgs, page_number \in PageNumberArgs :
         SearchBooks(query, tags, page_size, page_number)

DoSetStatus ==
  \E member \in Members, st \in {ACTIVE, BLOCKED} : SetStatus(member, st)

Next ==
  \/ DoBorrow
  \/ DoReturn
  \/ DoFine
  \/ DoSearch
  \/ Observe
  \/ Tick
  \/ DoSetStatus

Spec == Init /\ [][Next]_vars

TypeOK ==
  /\ today \in Dates
  /\ \A m \in Members : status[m] \in {ACTIVE, BLOCKED}

\* ---------------------------------------------------------------- properties
HasOpen(m, isbn) == \E k \in 1..Len(borrowed[m]) : borrowed[m][k].key = isbn

OpenRec(m, isbn) ==
  borrowed[m][CHOOSE k \in 1..Len(borrowed[m]) : borrowed[m][k].key = isbn].val

InCatalogue(isbn) == \E k \in 1..Len(catalogue) : catalogue[k].isbn = isbn

\* this step is a call of op: no result was pending before it
IsCallOf(op) == last.op = "idle" /\ last'.op = op

LoanOps == {"borrow_book", "return_book", "calculate_fine"}

\* 0.50 for each whole day by which d is after the due date of m's open
\* record for isbn, in hundredths
OverdueAmount(m, isbn, d) ==
  IF HasOpen(m, isbn) /\ d > OpenRec(m, isbn).due_on
  THEN 50 * (d - OpenRec(m, isbn).due_on) ELSE 0

RECURSIVE SumOverdue(_, _, _)
SumOverdue(S, m, d) ==
  IF S = {} THEN 0
  ELSE LET i == CHOOSE x \in S : TRUE
       IN OverdueAmount(m, i, d) + SumOverdue(S \ {i}, m, d)

\* C1: a call of borrow_book, return_book or calculate_fine for a member whose
\* status is BLOCKED raises MemberBlocked, whatever the isbn and the date, and
\* leaves the catalogue, every status and every open-loan set as they were.
C1_BlockedMemberRejected ==
  [][(/\ last.op = "idle"
      /\ last'.op \in LoanOps
      /\ last'.member # None
      /\ status[last'.member] = BLOCKED)
     => (/\ last'.outcome = MemberBlocked
         /\ UNCHANGED <<catalogue, status, borrowed>>)]_vars

\* a blocked member was refused the return of a book they hold
C1_Witness ==
  /\ last.op = "return_book"
  /\ last.outcome = MemberBlocked
  /\ HasOpen(last.member, last.isbn)

\* C2: return_book by an active member with a date succeeds exactly when the
\* member has an open record for the isbn: it then removes that record from
\* the open loans and stamps it returned_on = return_date, so that a second
\* return finds no open record; without an open record the call raises
\* BookNotBorrowed.
C2_ReturnOnce ==
  [][\A m \in Members, i \in ISBNs :
       (/\ IsCallOf("return_book")
        /\ last'.member = m
        /\ last'.isbn = i
        /\ status[m] = ACTIVE
        /\ last'.date # None)
       => IF HasOpen(m, i)
          THEN /\ last'.outcome = OK
               /\ last'.rec = [OpenRec(m, i) EXCEPT
                                 !.returned_on = last'.date]
               /\ ~ HasOpen(m, i)'
          ELSE last'.outcome = BookNotBorrowed]_vars

\* a return succeeded: the record is stamped and no longer open
C2_Witness ==
  /\ last.op = "return_book"
  /\ last.outcome = OK
  /\ last.rec.returned_on = last.date
  /\ ~ HasOpen(last.member, last.isbn)

\* C3: a call that raises (InvalidArgument, MemberBlocked, BookNotFound or
\* BookNotBorrowed) leaves the catalogue, every member's status and every
\* member's open records, dates included, as they were before the call.
C3_RejectedCallChangesNothing ==
  [][(last.op = "idle" /\ last'.outcome \in Failures)
     => UNCHANGED <<catalogue, status, borrowed>>]_vars

\* a return was rejected for want of a date while the member holds that book
C3_Witness ==
  /\ last.op = "return_book"
  /\ last.outcome = InvalidArgument
  /\ last.member # None
  /\ HasOpen(last.member, last.isbn)

\* C4: for an active member with an open record for isbn, return_book gives
\* the receipt (RETURNED_LATE, return_date, isbn) when return_date is strictly
\* after the record's due_on and (RETURNED_ON_TIME, return_date, isbn)
\* otherwise.
C4_ReturnReceipt ==
  [][(/\ IsCallOf("return_book")
      /\ last'.member # None
      /\ status[last'.member] = ACTIVE
      /\ last'.date # None
      /\ HasOpen(last'.member, last'.isbn))
     => /\ last'.outcome = OK
        /\ last'.result =
             Receipt(IF last'.date > OpenRec(last'.member, last'.isbn).due_on
                     THEN RETURNED_LATE ELSE RETURNED_ON_TIME,
                     last'.date, last'.isbn)]_vars

\* a book came back on the very day it was due
C4_Witness ==
  /\ last.op = "return_book"
  /\ last.outcome = OK
  /\ last.date = last.rec.due_on
  /\ last.result.status = RETURNED_ON_TIME

\* C5: for an active member and a date, calculate_fine returns the sum over
\* the member's open records with as_of_date strictly after due_on of 0.50
\* times the days between them, which is zero when no open record is overdue.
C5_FineIsSumOverOpenOverdue ==
  (/\ last.op = "calculate_fine"
   /\ last.member # None
   /\ status[last.member] = ACTIVE
   /\ last.date # None)
  => /\ last.outcome = OK
     /\ last.result = SumOverdue(ISBNs, last.member, last.date)

\* a fine of 1.00 over two open records, each a day overdue
C5_Witness ==
  /\ last.op = "calculate_fine"
  /\ last.outcome = OK
  /\ Len(borrowed[last.member]) = 2
  /\ \A k \in 1..2 : last.date = borrowed[last.member][k].val.due_on + 1
  /\ last.result = 100

\* C6: once return_book has returned a record, calculate_fine for that member
\* at any date is what it was before the return less the amount for that
\* record: the returned record is not counted any more.
C6_ReturnedRecordNotFined ==
  [][\A m \in Members, i \in ISBNs :
       (/\ IsCallOf("return_book")
        /\ last'.outcome = OK
        /\ last'.member = m
        /\ last'.isbn = i)
       => \A d \in Dates :
            FineCall(m, d)'.result =
              FineCall(m, d).result - OverdueAmount(m, i, d)]_vars

\* the only book of a member came back late and the fine is now zero
C6_Witness ==
  /\ last.op = "return_book"
  /\ last.outcome = OK
  /\ last.result.status = RETURNED_LATE
  /\ Len(borrowed[last.member]) = 0
  /\ FineCall(last.member, last.date).result = 0

\* C7: a borrow_book that succeeds leaves the member with exactly one open
\* record for the isbn, borrowed today and due on due_date, with due_date
\* strictly after that day, and returns the receipt (BORROWED, today, isbn),
\* today being one and the same day in the record and in the receipt.
C7_BorrowStampsToday ==
  (last.op = "borrow_book" /\ last.outcome = OK)
  => LET d == borrowed[last.member] IN
     /\ Cardinality({k \in 1..Len(d) : d[k].key = last.isbn}) = 1
     /\ OpenRec(last.member, last.isbn).isbn = last.isbn
     /\ OpenRec(last.member, last.isbn).due_on = last.date
     /\ OpenRec(last.member, last.isbn).returned_on = None
     /\ OpenRec(last.member, last.isbn).borrowed_on = last.result.when
     /\ last.date > last.result.when
     /\ last.result = Receipt(BORROWED, last.result.when, last.isbn)

\* C8: for an active member borrow_book raises InvalidArgument when due_date
\* is None or not strictly after the current date, and BookNotFound when the
\* date is good and the isbn is not in the catalogue; return_book and
\* calculate_fine raise InvalidArgument when their date is None; all three
\* raise InvalidArgument when the member is None.
C8_ArgumentErrors ==
  [][(last.op = "idle" /\ last'.op \in LoanOps)
     => /\ last'.member = None => last'.outcome = InvalidArgument
        /\ (last'.member # None /\ status[last'.member] = ACTIVE)
           => /\ (last'.op = "borrow_book" /\ last'.date = None)
                 => last'.outcome = InvalidArgument
              /\ (last'.op = "borrow_book" /\ last'.date # None
                    /\ last'.date <= today)
                 => last'.outcome = InvalidArgument
              /\ (last'.op = "borrow_book" /\ last'.date # None
                    /\ last'.date > today /\ ~ InCatalogue(last'.isbn))
                 => last'.outcome = BookNotFound
              /\ (last'.op # "borrow_book" /\ last'.date = None)
                 => last'.outcome = InvalidArgument]_vars

\* an active member was refused a book that would be due today
C8_Witness ==
  /\ last.op = "borrow_book"
  /\ last.member # None
  /\ status[last.member] = ACTIVE
  /\ last.date = today
  /\ InCatalogue(last.isbn)
  /\ last.outcome = InvalidArgument

\* C9: with the member's open records as they are, calculate_fine at an
\* earlier date is never more, and at a later date never less, than the
\* amount calculate_fine has just returned.
C9_FineMonotonic ==
  (last.op = "calculate_fine" /\ last.outcome = OK)
  => \A d \in Dates :
       /\ d <= last.date => FineCall(last.member, d).result <= last.result
       /\ d >= last.date => FineCall(last.member, d).result >= last.result

\* a positive fine that was smaller a day earlier
C9_Witness ==
  /\ last.op = "calculate_fine"
  /\ last.outcome = OK
  /\ last.result > 0
  /\ last.date > 0
  /\ FineCall(last.member, last.date - 1).result < last.result

\* C10: every BorrowRecord has due_on strictly after borrowed_on, the open
\* ones and the one return_book has just closed.
C10_DueAfterBorrowed ==
  /\ \A m \in Members : \A k \in 1..Len(borrowed[m]) :
       borrowed[m][k].val.due_on > borrowed[m][k].val.borrowed_on
  /\ (last.op = "return_book" /\ last.outcome = OK)
     => last.rec.due_on > last.rec.borrowed_on

ServiceOps == LoanOps \cup {"search_books"}

\* C15: a call changes neither the catalogue nor any member's status, and it
\* leaves the open records of every member other than the one it is made for
\* as they were; calculate_fine and search_books change no open record.
C15_OnlyOwnLoansChange ==
  [][(last.op = "idle" /\ last'.op \in ServiceOps)
     => /\ UNCHANGED <<catalogue, status>>
        /\ \A m \in Members :
             last'.member # m => borrowed'[m] = borrowed[m]
        /\ last'.op \in {"calculate_fine", "search_books"}
           => UNCHANGED borrowed]_vars

\* a fine was calculated for a member with open loans, which are still there
C15_Witness ==
  /\ last.op = "calculate_fine"
  /\ last.outcome = OK
  /\ last.result > 0
  /\ Len(borrowed[last.member]) > 0
  /\ \E m \in Members : m # last.member /\ Len(borrowed[m]) > 0

\* C16: every open record has no returned_on and is stored under its own
\* isbn; the record a return closes carries returned_on = return_date and is
\* then in no open-loan set; a borrow puts a record made for that call (its
\* own due date, borrowed on the day of the call, not returned) under the
\* isbn, also when the isbn had an open record before.
C16_LoanLifecycle ==
  [][/\ \A m \in Members : \A k \in 1..Len(borrowed'[m]) :
          /\ borrowed'[m][k].val.returned_on = None
          /\ borrowed'[m][k].key = borrowed'[m][k].val.isbn
     /\ \A m \in Members, i \in ISBNs :
          (/\ IsCallOf("return_book")
           /\ last'.outcome = OK
           /\ last'.member = m
           /\ last'.isbn = i)
          => /\ last'.date # None
             /\ last'.rec.returned_on = last'.date
             /\ last'.rec.isbn = i
             /\ ~ HasOpen(m, i)'
     /\ \A m \in Members, i \in ISBNs :
          (/\ IsCallOf("borrow_book")
           /\ last'.outcome = OK
           /\ last'.member = m
           /\ last'.isbn = i)
          => \E t \in today..today' :
               OpenRec(m, i)' = BorrowRecord(i, t, last'.date)]_vars

\* a loan was closed while the member keeps another one open
C16_Witness ==
  /\ last.op = "return_book"
  /\ last.outcome = OK
  /\ last.rec.returned_on = last.date
  /\ Len(borrowed[last.member]) = 1
  /\ borrowed[last.member][1].val.returned_on = None

\* C17: borrow_book reports the first failing check of: member blocked
\* (MemberBlocked), due date None or not after the current date
\* (InvalidArgument), isbn not in the catalogue (BookNotFound); return_book
\* the first of: member blocked, return_date None (InvalidArgument), no open
\* record (BookNotBorrowed).
C17_CheckOrder ==
  [][(last.op = "idle" /\ last'.member # None)
     => /\ last'.op = "borrow_book"
           => last'.outcome =
                IF status[last'.member] = BLOCKED THEN MemberBlocked
                ELSE IF last'.date = None \/ last'.date <= today
                THEN InvalidArgument
                ELSE IF ~ InCatalogue(last'.isbn) THEN BookNotFound
                ELSE OK
        /\ last'.op = "return_book"
           => last'.outcome =
                IF status[last'.member] = BLOCKED THEN MemberBlocked
                ELSE IF last'.date = None THEN InvalidArgument
                ELSE IF ~ HasOpen(last'.member, last'.isbn)
                THEN BookNotBorrowed
                ELSE OK]_vars

\* an active member, an unknown isbn and a due date that is not in the future
C17_Witness ==
  /\ last.op = "borrow_book"
  /\ last.member # None
  /\ status[last.member] = ACTIVE
  /\ ~ InCatalogue(last.isbn)
  /\ last.date # None
  /\ last.date <= today
  /\ last.outcome = InvalidArgument

\* C18: what a call for member m does is settled by m's own status and open
\* records, the arguments, the current date and the catalogue: a borrow of a
\* catalogued isbn with a good date succeeds whoever else holds that isbn and
\* leaves the other members' records as they were, a return succeeds exactly
\* when m itself holds the isbn, and the fine is the one of m's own records.
C18_OtherMembersDoNotMatter ==
  [][\A m \in Members, i \in ISBNs :
       (/\ last.op = "idle"
        /\ last'.op \in LoanOps
        /\ last'.member = m
        /\ status[m] = ACTIVE
        /\ last'.date # None)
       => /\ (last'.op = "borrow_book" /\ last'.isbn = i
                /\ last'.date > today /\ InCatalogue(i))
             => /\ last'.outcome = OK
                /\ HasOpen(m, i)'
                /\ \A o \in Members \ {m} : borrowed'[o] = borrowed[o]
          /\ (last'.op = "return_book" /\ last'.isbn = i)
             => (last'.outcome = OK <=> HasOpen(m, i))
          /\ last'.op = "calculate_fine"
             => last'.result = SumOverdue(ISBNs, m, last'.date)]_vars

\* a member borrowed a book that the other member holds too
C18_Witness ==
  /\ last.op = "borrow_book"
  /\ last.outcome = OK
  /\ HasOpen(last.member, last.isbn)
  /\ \E o \in Members : o # last.member /\ HasOpen(o, last.isbn)

\* C19: for an active member with an open record, a return_date before the
\* record's borrowed_on is accepted: the loan is closed with that date and
\* the receipt says RETURNED_ON_TIME.
C19_EarlyReturnDateAccepted ==
  [][\A m \in Members, i \in ISBNs :
       (/\ IsCallOf("return_book")
        /\ last'.member = m
        /\ last'.isbn = i
        /\ status[m] = ACTIVE
        /\ last'.date # None
        /\ HasOpen(m, i)
        /\ last'.date < OpenRec(m, i).borrowed_on)
       => /\ last'.outcome = OK
          /\ last'.result = Receipt(RETURNED_ON_TIME, last'.date, i)
          /\ last'.rec.returned_on = last'.date
          /\ ~ HasOpen(m, i)']_vars

\* a book came back dated before the day it was borrowed
C19_Witness ==
  /\ last.op = "return_book"
  /\ last.outcome = OK
  /\ last.date < last.rec.borrowed_on
  /\ last.result.status = RETURNED_ON_TIME
  /\ ~ HasOpen(last.member, last.isbn)

\* ---------------------------------------------------------------- search
\* search_books over several catalogues and a wider set of arguments
ThreeBooks ==
  << Book("i1", <<"J", "a">>, <<"java", "arch">>),
     Book("i2", <<"a", "J">>, <<"java">>),
     Book("i3", <<"j", "a", "b">>, <<"arch", "java">>) >>

SearchCatalogues == {<<>>, DemoCatalogue, ThreeBooks}

WideQueryArgs ==
  {NoneArg, Arg(<<>>), Arg(<<" ">>), Arg(<<" ", " ">>), Arg(<<"*">>),
   Arg(<<"j">>), Arg(<<"J", "A">>), Arg(<<"a", "j">>), Arg(<<"b">>),
   Arg(<<" ", "j">>), Arg(<<"*", "j">>)}

WideTagArgs ==
  {NoneArg, Arg(<<>>), Arg(<<"java">>), Arg(<<"java", "arch">>),
   Arg(<<"arch", "py">>), Arg(<<"py">>)}

WidePageSizeArgs == {0, 1, 2, 100, 101}
WidePageNumberArgs == {-1, 0, 1, 2, 3}

SearchInit ==
  /\ catalogue \in SearchCatalogues
  /\ status = (42 :> ACTIVE) @@ (77 :> BLOCKED)
  /\ borrowed = [m \in Members |-> <<>>]
  /\ today = 0
  /\ last = Idle

DoSearchWide ==
  /\ last.op = "idle"
  /\ \E query \in WideQueryArgs, tags \in WideTagArgs :
       \E page_size \in WidePageSizeArgs, page_number \in WidePageNumberArgs :
         SearchBooks(query, tags, page_size, page_number)

SearchNext ==
  \/ DoSearchWide
  \/ Observe

SearchSpec == SearchInit /\ [][SearchNext]_vars

\* the book's title contains q, letter case apart
TitleHas(q, book) ==
  \E off \in 0..(Len(book.title) - Len(q)) :
    \A j \in 1..Len(q) : Lower(book.title[off + j]) = Lower(q[j])

\* the filters of a search as the specification words them
Passes(query, tags, book) ==
  /\ query.s = <<"*">> \/ TitleHas(query.s, book)
  /\ \A t \in {tags.s[k] : k \in 1..Len(tags.s)} :
       t \in {book.tags[k] : k \in 1..Len(book.tags)}

\* the positions in the catalogue of the books that pass
PassingAt(query, tags) ==
  {k \in 1..Len(catalogue) : Passes(query, tags, catalogue[k])}

\* the j-th book that passes, in catalogue order
NthPassing(query, tags, j) ==
  catalogue[CHOOSE k \in PassingAt(query, tags) :
              Cardinality({x \in PassingAt(query, tags) : x < k}) = j - 1]

SearchOk == last.op = "search_books" /\ last.outcome = OK

\* C11: a search that succeeds returns the books at positions start + 1 ..
\* start + page_size, start = page_size * page_number, of the filtered
\* catalogue in insertion order, as many of them as exist (none past the
\* end), and the pages 0, 1, 2, ... of that size laid end to end are the
\* whole filtered sequence.
C11_PageIsSlice ==
  SearchOk =>
    LET a == last.search
        n == Cardinality(PassingAt(a.query, a.tags))
        start == a.page_size * a.page_number
        len == IF n - start <= 0 THEN 0 ELSE Min(a.page_size, n - start)
    IN /\ Len(last.result) = len
       /\ Len(last.result) <= a.page_size
       /\ \A k \in 1..len :
            last.result[k] = NthPassing(a.query, a.tags, start + k)
       /\ \A j \in 1..n :
            Page(Filtered(a.query, a.tags), a.page_size,
                 (j - 1) \div a.page_size)[((j - 1) % a.page_size) + 1]
              = NthPassing(a.query, a.tags, j)

\* the second page of size 1 of three results, and a page past the end
C11_Witness ==
  /\ SearchOk
  /\ last.search.page_size = 1
  /\ last.search.page_number = 1
  /\ Cardinality(PassingAt(last.search.query, last.search.tags)) = 3
  /\ last.result = <<catalogue[2]>>

\* C12: the books a search returns all pass the filters (wildcard or title
\* containing the query, letter case apart, and every requested tag among the
\* book's tags), and a page that has room for the whole catalogue holds
\* every book that passes; an empty tag list excludes no book.
C12_FilterIsConjunctive ==
  SearchOk =>
    LET a == last.search IN
    /\ \A k \in 1..Len(last.result) : Passes(a.query, a.tags, last.result[k])
    /\ (a.page_number = 0 /\ a.page_size >= Len(catalogue))
       => \A k \in 1..Len(catalogue) :
            Passes(a.query, a.tags, catalogue[k])
              <=> InSeq(catalogue[k], last.result)

\* two tags asked for: a book with only one of them is left out
C12_Witness ==
  /\ SearchOk
  /\ last.search.query.s = <<"j">>
  /\ last.search.tags.s = <<"java", "arch">>
  /\ last.search.page_size = 100
  /\ last.search.page_number = 0
  /\ catalogue = ThreeBooks
  /\ last.result = <<catalogue[1], catalogue[3]>>

\* C13: search_books raises InvalidArgument exactly when page_size is outside
\* 1..100, page_number is negative, tags is None, or query is None, empty or
\* all whitespace; in every other case it returns a page.
C13_SearchArgumentErrors ==
  last.op = "search_books" =>
    LET a == last.search
        bad == \/ a.page_size < 1
               \/ a.page_size > 100
               \/ a.page_number < 0
               \/ a.tags.none
               \/ a.query.none
               \/ a.query.s = <<>>
               \/ \A k \in 1..Len(a.query.s) : a.query.s[k] = " "
    IN IF bad THEN last.outcome = InvalidArgument ELSE last.outcome = OK

\* a query of blanks is refused though every other argument is good
C13_Witness ==
  /\ last.op = "search_books"
  /\ last.outcome = InvalidArgument
  /\ last.search.query.s = <<" ", " ">>
  /\ ~ last.search.query.none
  /\ ~ last.search.tags.none
  /\ last.search.page_size = 100
  /\ last.search.page_number = 0

\* ---------------------------------------------------------------- fines
\* calculate_fine over the loans a member can hold of a three-book catalogue
FineDates == 0..(MaxDate + 3)

FineEntries ==
  {[key |-> ThreeBooks[b].isbn,
    val |-> BorrowRecord(ThreeBooks[b].isbn, 0, due)] :
     b \in 1..Len(ThreeBooks), due \in 1..MaxDate}

FineDicts ==
  {d \in UNION {[1..n -> FineEntries] : n \in 0..Len(ThreeBooks)} :
     \A j, k \in 1..Len(d) : d[j].key = d[k].key => j = k}

FineInit ==
  /\ catalogue = ThreeBooks
  /\ status = (42 :> ACTIVE) @@ (77 :> BLOCKED)
  /\ \E d \in FineDicts : borrowed = (42 :> d) @@ (77 :> <<>>)
  /\ today = MaxDate
  /\ last = Idle

DoFineWide ==
  /\ last.op = "idle"
  /\ \E member \in Members, as_of_date \in FineDates \cup {None} :
       CalculateFine(member, as_of_date)

FineNext ==
  \/ DoFineWide
  \/ Observe

FineSpec == FineInit /\ [][FineNext]_vars

\* the days by which the records at the positions S of m's open loans are
\* overdue on day d, added up
RECURSIVE OverdueDays(_, _, _)
OverdueDays(S, m, d) ==
  IF S = {} THEN 0
  ELSE LET k == CHOOSE x \in S : TRUE
           due == borrowed[m][k].val.due_on
       IN (IF d > due THEN d - due ELSE 0) + OverdueDays(S \ {k}, m, d)

\* C14: the amount calculate_fine returns is exact in hundredths: it is 50
\* hundredths times the days overdue added over the open records, hence a
\* multiple of 0.50 (three records each 3 days overdue give 4.50 exactly).
C14_FineExact ==
  (last.op = "calculate_fine" /\ last.outcome = OK)
  => /\ last.result % 50 = 0
     /\ last.result =
          50 * OverdueDays(1..Len(borrowed[last.member]), last.member,
                           last.date)

\* three open records, each 3 days overdue: 4.50
C14_Witness ==
  /\ last.op = "calculate_fine"
  /\ last.outcome = OK
  /\ Len(borrowed[last.member]) = 3
  /\ \A k \in 1..3 : last.date = borrowed[last.member][k].val.due_on + 3
  /\ last.result = 450

====
